---- MODULE Spec2Model ----
(***************************************************************************)
(* A model of the FastAPI application of src/main.py.                      *)
(*                                                                         *)
(* The program's only module-level state is the list fake_items_db.  Every *)
(* route is an "async def" without an await in its body, so a handler runs *)
(* to completion on the event loop before another one starts: one action   *)
(* per route, taking the raw request, binding and validating its           *)
(* parameters the way the declared annotations make the framework do it,   *)
(* and running the handler body when the validation finds no error.  The   *)
(* operator named after an endpoint function is that function with its     *)
(* signature: from the state of fake_items_db and the raw parameters to    *)
(* the response, the function that ran and the state it leaves.            *)
(*                                                                         *)
(* The routes /user2/ and /user3/ (main.py 474-482) take the models UserIn *)
(* and UserOut, which src/model/users.py does not define; they are not     *)
(* modelled.                                                               *)
(***************************************************************************)
EXTENDS Integers, Sequences, FiniteSets, TLC

\* The field names of the model's records, numbered.  Every record below lists
\* its fields in this order, the order in which TLC keeps them.
FieldOrder ==
  [ads_id |-> 1, array |-> 2, body |-> 3, db |-> 4, description |-> 5,
   detail |-> 6, duration |-> 7, end_datetime |-> 8, errs |-> 9, full_name
   |-> 10, handler |-> 11, hidden_query |-> 12, image |-> 13, importance |->
   14, item |-> 15, item_id |-> 16, item_name |-> 17, item_query |-> 18,
   items |-> 19, l |-> 20, limit |-> 21, message |-> 22, model_name |-> 23,
   n |-> 24, name |-> 25, needy |-> 26, none |-> 27, offer |-> 28, p |-> 29,
   pairs |-> 30, price |-> 31, price_with_tax |-> 32, process_after |-> 33,
   q |-> 34, repeat_at |-> 35, route |-> 36, s |-> 37, set_tags |-> 38,
   short |-> 39, skip |-> 40, start_datetime |-> 41, start_process |-> 42,
   status |-> 43, strange_header |-> 44, t |-> 45, tags |-> 46, tax |-> 47,
   teleport |-> 48, url |-> 49, user |-> 50, user_agent |-> 51, username |->
   52, val |-> 53, weights |-> 54, x_token |-> 55]

VARIABLES fake_items_db, request, response, executed

vars == <<fake_items_db, request, response, executed>>

(***************************************************************************)
(* Bounds of the model                                                     *)
(***************************************************************************)
\* the integers -MaxSmall..MaxSmall are sent as path, query and body numbers
MaxSmall == 2
\* the item ids ItemIdMax-Near..ItemIdMax+Near are sent around the upper limit
Near == 1
\* skip and limit range over -MaxSkip..MaxSkip
MaxSkip == 4

(***************************************************************************)
(* Program constants                                                       *)
(***************************************************************************)
ItemIdMax == 1000
DescriptionMaxLength == 300
QueryMaxLength == 50
QueryMinLength == 3
DefaultSkip == 0
DefaultLimit == 10
NoLimit == -1

(***************************************************************************)
(* Values.  A raw parameter, a JSON scalar or a Python scalar is a record  *)
(* with a tag t; n holds a number, s a string.  A JSON array of strings or *)
(* a repeated parameter has the tag "list" and its elements in l.          *)
(***************************************************************************)
Absent == [n |-> 0, s |-> "", t |-> "absent"]
Null == [n |-> 0, s |-> "", t |-> "null"]
Num(i) == [n |-> i, s |-> "", t |-> "num"]
Str(x) == [n |-> 0, s |-> x, t |-> "str"]
Bool(b) == [n |-> IF b THEN 1 ELSE 0, s |-> "", t |-> "bool"]
AbsentList == [l |-> <<>>, t |-> "absent"]
List(x) == [l |-> x, t |-> "list"]

\* Python's truth value of a scalar: None, 0, "" and False are falsy
Truthy(v) ==
  CASE v.t = "null" -> FALSE
    [] v.t = "absent" -> FALSE
    [] v.t = "num" -> v.n # 0
    [] v.t = "bool" -> v.n # 0
    [] v.t = "str" -> v.s # ""

RECURSIVE Rep(_, _)
\* the string of k copies of c
Rep(c, k) ==
  IF k = 0 THEN ""
  ELSE LET half == Rep(c, k \div 2)
       IN half \o half \o (IF k % 2 = 1 THEN c ELSE "")

Min(a, b) == IF a < b THEN a ELSE b
Max(a, b) == IF a > b THEN a ELSE b
Range(x) == {x[i] : i \in 1..Len(x)}

(***************************************************************************)
(* The integers of the model and their decimal text.  A path or query      *)
(* parameter arrives as text; the framework parses it.                     *)
(***************************************************************************)
SmallInts == (0 - MaxSmall)..MaxSmall
IntUniverse ==
  SmallInts \cup ((0 - MaxSkip)..MaxSkip) \cup ((ItemIdMax - Near)..(ItemIdMax + Near))
Numerals == {ToString(i) : i \in IntUniverse}
IntOf == [x \in Numerals |-> CHOOSE i \in IntUniverse : ToString(i) = x]

Err(loc, type) == <<loc, type>>
Check(cond, loc, type) == IF cond THEN {} ELSE {Err(loc, type)}
Missing(loc) == [errs |-> {Err(loc, "missing")}, val |-> Null]
Valid(v) == [errs |-> {}, val |-> v]
Invalid(loc, type) == [errs |-> {Err(loc, type)}, val |-> Null]

\* an int parameter: a decimal numeral (or a JSON number), the default when absent
IntParam(loc, raw, required, default) ==
  CASE raw.t = "absent" -> IF required THEN Missing(loc) ELSE Valid(default)
    [] raw.t = "str" -> IF raw.s \in Numerals THEN Valid(Num(IntOf[raw.s]))
                        ELSE Invalid(loc, "int_parsing")
    [] raw.t = "num" -> Valid(raw)
    [] OTHER -> Invalid(loc, "int_type")

\* a str parameter: any text, None where the annotation allows it
StrParam(loc, raw, required, default) ==
  CASE raw.t = "absent" -> IF required THEN Missing(loc) ELSE Valid(default)
    [] raw.t = "str" -> Valid(raw)
    [] raw.t = "null" /\ ~required -> Valid(Null)
    [] OTHER -> Invalid(loc, "string_type")

\* a float parameter: a JSON number, or text that is a numeral
FloatParam(loc, raw, required, default) ==
  CASE raw.t = "absent" -> IF required THEN Missing(loc) ELSE Valid(default)
    [] raw.t = "num" -> Valid(raw)
    [] raw.t = "str" -> IF raw.s \in Numerals THEN Valid(Num(IntOf[raw.s]))
                        ELSE Invalid(loc, "float_parsing")
    [] raw.t = "null" /\ ~required -> Valid(Null)
    [] OTHER -> Invalid(loc, "float_type")

TrueTexts == {"1", "true", "True", "on", "yes", "t", "y"}
FalseTexts == {"0", "false", "False", "off", "no", "f", "n"}

\* a bool parameter: one of the texts the framework reads as a boolean
BoolParam(loc, raw, default) ==
  CASE raw.t = "absent" -> Valid(default)
    [] raw.t = "str" /\ raw.s \in TrueTexts -> Valid(Bool(TRUE))
    [] raw.t = "str" /\ raw.s \in FalseTexts -> Valid(Bool(FALSE))
    [] OTHER -> Invalid(loc, "bool_parsing")

\* a list[str] parameter: the values of a repeated key, the default when absent
ListParam(loc, raw, default) ==
  IF raw.t = "absent" THEN Valid(default) ELSE Valid(raw)

\* min_length / max_length of a str
LengthErrs(loc, v, minLen, maxLen) ==
  IF v.t # "str" THEN {}
  ELSE Check(minLen = NoLimit \/ Len(v.s) >= minLen, loc, "string_too_short")
       \cup Check(maxLen = NoLimit \/ Len(v.s) <= maxLen, loc, "string_too_long")

\* pattern="^fixedquery$"
PatternErrs(loc, v) ==
  IF v.t # "str" THEN {} ELSE Check(v.s = "fixedquery", loc, "string_pattern_mismatch")

(***************************************************************************)
(* Responses                                                               *)
(***************************************************************************)
\* A response body is a record: a JSON object by its keys, a JSON array as
\* [array |-> its elements], a dict[int, float] as [pairs |-> its pairs].

\* validation failed: HTTP 422, the handler is not called, globals untouched
Rejected(db, errs) ==
  [body |-> [detail |-> errs], db |-> db, handler |-> "none", status |-> 422]

\* the handler ran and returned body
Returned(db, handler, body) ==
  [body |-> body, db |-> db, handler |-> handler, status |-> 200]

(***************************************************************************)
(* model/model_name.py                                                     *)
(***************************************************************************)
ModelName == {"telecentro", "movistar", "claro", "fibertel"}

(***************************************************************************)
(* model/users.py                                                          *)
(***************************************************************************)
AbsentUser == [full_name |-> Absent, t |-> "absent", username |-> Absent]

\* class User
User(loc, raw) ==
  IF raw.t = "absent" THEN Missing(loc)
  ELSE LET username == StrParam(loc \o <<"username">>, raw.username, TRUE, Null)
           full_name == StrParam(loc \o <<"full_name">>, raw.full_name, FALSE, Null)
       IN [errs |-> username.errs \cup full_name.errs,
           val |-> [full_name |-> full_name.val, username |-> username.val]]

(***************************************************************************)
(* model/items.py                                                          *)
(***************************************************************************)
AbsentImage == [name |-> Absent, t |-> "absent", url |-> ""]
ImageJson(url, name) == [name |-> name, t |-> "obj", url |-> url]
NoImage == [name |-> Null, t |-> "null", url |-> ""]

\* HttpUrl: the text starts with http:// or https://
HttpUrl(u) ==
  \/ Len(u) > 7 /\ SubSeq(u, 1, 7) = "http://"
  \/ Len(u) > 8 /\ SubSeq(u, 1, 8) = "https://"

\* class Image
Image(loc, raw) ==
  IF raw.t = "absent" \/ raw.t = "null" THEN Valid(NoImage)
  ELSE LET name == StrParam(loc \o <<"name">>, raw.name, TRUE, Null)
       IN [errs |-> Check(HttpUrl(raw.url), loc \o <<"url">>, "url_parsing")
                    \cup name.errs,
           val |-> [name |-> name.val, t |-> "obj", url |-> raw.url]]

AbsentItem ==
  [description |-> Absent, image |-> AbsentImage, name |-> Absent, price |-> Absent,
   set_tags |-> AbsentList, t |-> "absent", tags |-> AbsentList, tax |-> Absent]

\* Item with price declared ge=0 in place of gt=0
Item_price_ge(loc, raw) ==
  LET name == StrParam(loc \o <<"name">>, raw.name, TRUE, Null)
      description == StrParam(loc \o <<"description">>, raw.description, FALSE, Null)
      price == FloatParam(loc \o <<"price">>, raw.price, TRUE, Null)
      tax == FloatParam(loc \o <<"tax">>, raw.tax, FALSE, Null)
      image == Image(loc \o <<"image">>, raw.image)
  IN IF raw.t = "absent" THEN Missing(loc)
     ELSE [errs |-> name.errs
                    \cup description.errs
                    \cup LengthErrs(loc \o <<"description">>, description.val, NoLimit,
                                    DescriptionMaxLength)
                    \cup price.errs
                    \cup (IF price.errs = {}
                          THEN Check(price.val.n >= 0, loc \o <<"price">>,
                                     "greater_than_equal")
                          ELSE {})
                    \cup tax.errs
                    \cup image.errs,
           val |-> [description |-> description.val, image |-> image.val,
                    name |-> name.val, price |-> price.val,
                    set_tags |-> Range(raw.set_tags.l), tags |-> raw.tags.l,
                    tax |-> tax.val]]

\* class Item: a JSON object validated against the declared fields
Item(loc, raw) ==
  LET name == StrParam(loc \o <<"name">>, raw.name, TRUE, Null)
      description == StrParam(loc \o <<"description">>, raw.description, FALSE, Null)
      price == FloatParam(loc \o <<"price">>, raw.price, TRUE, Null)
      tax == FloatParam(loc \o <<"tax">>, raw.tax, FALSE, Null)
      image == Image(loc \o <<"image">>, raw.image)
  IN IF raw.t = "absent" THEN Missing(loc)
     ELSE [errs |-> name.errs
                    \cup description.errs
                    \cup LengthErrs(loc \o <<"description">>, description.val, NoLimit,
                                    DescriptionMaxLength)
                    \cup price.errs
                    \cup (IF price.errs = {}
                          THEN Check(price.val.n > 0, loc \o <<"price">>, "greater_than")
                          ELSE {})
                    \cup tax.errs
                    \cup image.errs,
           val |-> [description |-> description.val, image |-> image.val,
                    name |-> name.val, price |-> price.val,
                    set_tags |-> Range(raw.set_tags.l), tags |-> raw.tags.l,
                    tax |-> tax.val]]

\* Item.dict(): every field of the model, defaults included
dict(item) ==
  [description |-> item.description, image |-> item.image, name |-> item.name,
   price |-> item.price, set_tags |-> item.set_tags, tags |-> item.tags,
   tax |-> item.tax]

\* List[Item]
RECURSIVE ItemList(_, _, _)
ItemList(loc, raws, k) ==
  IF k > Len(raws) THEN [errs |-> {}, val |-> <<>>]
  ELSE LET head == Item(loc \o <<ToString(k - 1)>>, raws[k])
           rest == ItemList(loc, raws, k + 1)
       IN [errs |-> head.errs \cup rest.errs, val |-> <<head.val>> \o rest.val]

AbsentOffer ==
  [description |-> Absent, items |-> AbsentList, name |-> Absent, price |-> Absent,
   t |-> "absent"]

\* class Offer
Offer(loc, raw) ==
  LET name == StrParam(loc \o <<"name">>, raw.name, TRUE, Null)
      description == StrParam(loc \o <<"description">>, raw.description, FALSE, Null)
      price == FloatParam(loc \o <<"price">>, raw.price, TRUE, Null)
      items == IF raw.items.t = "absent" THEN Missing(loc \o <<"items">>)
               ELSE ItemList(loc \o <<"items">>, raw.items.l, 1)
  IN IF raw.t = "absent" THEN Missing(loc)
     ELSE [errs |-> name.errs \cup description.errs \cup price.errs \cup items.errs,
           val |-> [description |-> description.val, items |-> items.val,
                    name |-> name.val, price |-> price.val]]

(***************************************************************************)
(* main.py                                                                 *)
(***************************************************************************)
InitialItems == <<[item_name |-> "Foo"], [item_name |-> "Bar"], [item_name |-> "Baz"]>>

\* Python's seq[start:stop]
Slice(seq, start, stop) ==
  LET size == Len(seq)
      Adj(i) == IF i < 0 THEN Max(i + size, 0) ELSE Min(i, size)
      lo == Adj(start)
      hi == Adj(stop)
  IN IF lo >= hi THEN <<>> ELSE SubSeq(seq, lo + 1, hi)

\* @app.get("/")
root(db, p) == Returned(db, "root", [message |-> "Hello World"])

\* @app.get("/items/{item_id}")
read_item(db, p) ==
  LET item_id == IntParam(<<"path", "item_id">>, p.item_id, TRUE, Null)
  IN IF item_id.errs # {} THEN Rejected(db, item_id.errs)
     ELSE Returned(db, "read_item", [item_id |-> item_id.val])

\* get_model with model_name annotated str
get_model_any(db, p) == Returned(db, "get_model", [model_name |-> p.model_name])

\* @app.get("/models/{model_name}")
get_model(db, p) ==
  LET errs == Check(p.model_name.s \in ModelName, <<"path", "model_name">>, "enum")
  IN IF errs # {} THEN Rejected(db, errs)
     ELSE Returned(db, "get_model", [model_name |-> p.model_name])

\* read_item2 deleting the page it returns from the list
read_item2_del(db, p) ==
  LET skip == IntParam(<<"query", "skip">>, p.skip, FALSE, Num(DefaultSkip))
      limit == IntParam(<<"query", "limit">>, p.limit, FALSE, Num(DefaultLimit))
      errs == skip.errs \cup limit.errs
      page == Slice(db, skip.val.n, skip.val.n + limit.val.n)
      Kept(x) == x \notin Range(page)
  IN IF errs # {} THEN Rejected(db, errs)
     ELSE [body |-> [array |-> page], db |-> SelectSeq(db, Kept),
           handler |-> "read_item2", status |-> 200]

\* read_item2 taking limit for the end of the slice
read_item2_stop(db, p) ==
  LET skip == IntParam(<<"query", "skip">>, p.skip, FALSE, Num(DefaultSkip))
      limit == IntParam(<<"query", "limit">>, p.limit, FALSE, Num(DefaultLimit))
      errs == skip.errs \cup limit.errs
  IN IF errs # {} THEN Rejected(db, errs)
     ELSE Returned(db, "read_item2", [array |-> Slice(db, skip.val.n, limit.val.n)])

\* @app.get("/items/")
read_item2(db, p) ==
  LET skip == IntParam(<<"query", "skip">>, p.skip, FALSE, Num(DefaultSkip))
      limit == IntParam(<<"query", "limit">>, p.limit, FALSE, Num(DefaultLimit))
      errs == skip.errs \cup limit.errs
  IN IF errs # {} THEN Rejected(db, errs)
     ELSE Returned(db, "read_item2",
                   [array |-> Slice(db, skip.val.n, skip.val.n + limit.val.n)])

\* @app.get("/items2/{item_id}")
read_item3(db, p) ==
  LET item_id == StrParam(<<"path", "item_id">>, p.item_id, TRUE, Null)
      q == StrParam(<<"query", "q">>, p.q, FALSE, Null)
  IN Returned(db, "read_item3",
              IF Truthy(q.val) THEN [item_id |-> item_id.val, q |-> q.val]
              ELSE [item_id |-> item_id.val])

LongDescription == Str("This is an amazing item that has a long description")

\* @app.get("/items3/{item_id}")
read_item4(db, p) ==
  LET item_id == StrParam(<<"path", "item_id">>, p.item_id, TRUE, Null)
      q == StrParam(<<"query", "q">>, p.q, FALSE, Null)
      short == BoolParam(<<"query", "short">>, p.short, Bool(FALSE))
  IN IF short.errs # {} THEN Rejected(db, short.errs)
     ELSE Returned(db, "read_item4",
            CASE Truthy(q.val) /\ ~Truthy(short.val) ->
                   [description |-> LongDescription, item_id |-> item_id.val,
                    q |-> q.val]
              [] Truthy(q.val) /\ Truthy(short.val) ->
                   [item_id |-> item_id.val, q |-> q.val]
              [] ~Truthy(q.val) /\ ~Truthy(short.val) ->
                   [description |-> LongDescription, item_id |-> item_id.val]
              [] OTHER -> [item_id |-> item_id.val])

\* read_user_item with needy: str | None = None
read_user_item_optional(db, p) ==
  LET item_id == StrParam(<<"path", "item_id">>, p.item_id, TRUE, Null)
      needy == StrParam(<<"query", "needy">>, p.needy, FALSE, Null)
  IN Returned(db, "read_user_item", [item_id |-> item_id.val, needy |-> needy.val])

\* @app.get("/items4/{item_id}")
read_user_item(db, p) ==
  LET item_id == StrParam(<<"path", "item_id">>, p.item_id, TRUE, Null)
      needy == StrParam(<<"query", "needy">>, p.needy, TRUE, Null)
      errs == item_id.errs \cup needy.errs
  IN IF errs # {} THEN Rejected(db, errs)
     ELSE Returned(db, "read_user_item", [item_id |-> item_id.val, needy |-> needy.val])

\* create_item appending the item it creates to fake_items_db
create_item_storing(db, p) ==
  LET item == Item(<<"body">>, p.item)
  IN IF item.errs # {} THEN Rejected(db, item.errs)
     ELSE [body |-> dict(item.val),
           db |-> Append(db, [item_name |-> item.val.name.s]),
           handler |-> "create_item", status |-> 200]

\* @app.post("/items5/")
create_item(db, p) ==
  LET item == Item(<<"body">>, p.item)
      item_dict == dict(item.val)
  IN IF item.errs # {} THEN Rejected(db, item.errs)
     ELSE Returned(db, "create_item",
            IF Truthy(item.val.tax)
            THEN [description |-> item_dict.description, image |-> item_dict.image,
                  name |-> item_dict.name, price |-> item_dict.price,
                  price_with_tax |-> Num(item.val.price.n + item.val.tax.n),
                  set_tags |-> item_dict.set_tags, tags |-> item_dict.tags,
                  tax |-> item_dict.tax]
            ELSE item_dict)

\* {"item_id": item_id, **item.dict()}
WithItemId(item_id, d) ==
  [description |-> d.description, image |-> d.image, item_id |-> item_id,
   name |-> d.name, price |-> d.price, set_tags |-> d.set_tags, tags |-> d.tags,
   tax |-> d.tax]

\* @app.put("/items6/{item_id}")
update_item(db, p) ==
  LET item_id == IntParam(<<"path", "item_id">>, p.item_id, TRUE, Null)
      item == Item(<<"body">>, p.item)
      errs == item_id.errs \cup item.errs
  IN IF errs # {} THEN Rejected(db, errs)
     ELSE Returned(db, "update_item", WithItemId(item_id.val, dict(item.val)))

\* @app.put("/items7/{item_id}"): the second function named update_item
update_item7(db, p) ==
  LET item_id == IntParam(<<"path", "item_id">>, p.item_id, TRUE, Null)
      item == Item(<<"body">>, p.item)
      q == StrParam(<<"query", "q">>, p.q, FALSE, Null)
      errs == item_id.errs \cup item.errs
      result == WithItemId(item_id.val, dict(item.val))
  IN IF errs # {} THEN Rejected(db, errs)
     ELSE Returned(db, "update_item7",
            IF Truthy(q.val)
            THEN [description |-> result.description, image |-> result.image,
                  item_id |-> result.item_id, name |-> result.name,
                  price |-> result.price, q |-> q.val, set_tags |-> result.set_tags,
                  tags |-> result.tags, tax |-> result.tax]
            ELSE result)

FooBar == <<[item_id |-> Str("Foo")], [item_id |-> Str("Bar")]>>

\* results = {"items": [...]}; if q: results.update({"q": q})
Results(q) == IF Truthy(q) THEN [items |-> FooBar, q |-> q] ELSE [items |-> FooBar]

\* the endpoints /items8/ .. /items17/ but /items13/ and /items14/: a str query
\* parameter with its constraints, answered by Results
QueryEndpoint(db, handler, raw, required, minLen, maxLen, pattern) ==
  LET q == StrParam(<<"query", "q">>, raw, required, Null)
      errs == q.errs \cup LengthErrs(<<"query", "q">>, q.val, minLen, maxLen)
              \cup (IF pattern THEN PatternErrs(<<"query", "q">>, q.val) ELSE {})
  IN IF errs # {} THEN Rejected(db, errs)
     ELSE Returned(db, handler, Results(q.val))

\* @app.get("/items8/")
read_items8(db, p) ==
  QueryEndpoint(db, "read_items8", p.q, FALSE, NoLimit, QueryMaxLength, FALSE)

\* @app.get("/items9/")
read_items9(db, p) ==
  QueryEndpoint(db, "read_items9", p.q, FALSE, QueryMinLength, QueryMaxLength, FALSE)

\* @app.get("/items10/")
read_items10(db, p) ==
  QueryEndpoint(db, "read_items10", p.q, FALSE, QueryMinLength, QueryMaxLength, TRUE)

\* @app.get("/items11/")
read_items11(db, p) ==
  QueryEndpoint(db, "read_items11", p.q, TRUE, QueryMinLength, NoLimit, FALSE)

\* @app.get("/items12/")
read_items12(db, p) ==
  QueryEndpoint(db, "read_items12", p.q, TRUE, QueryMinLength, NoLimit, FALSE)

\* @app.get("/items13/")
read_items13(db, p) ==
  LET q == ListParam(<<"query", "q">>, p.q, Null)
  IN Returned(db, "read_items13", [q |-> q.val])

\* @app.get("/items14/")
read_items14(db, p) ==
  LET q == ListParam(<<"query", "q">>, p.q, List(<<"foo", "bar">>))
  IN Returned(db, "read_items14", [q |-> q.val])

\* @app.get("/items15/")
read_items15(db, p) ==
  QueryEndpoint(db, "read_items15", p.q, FALSE, QueryMinLength, NoLimit, FALSE)

\* @app.get("/items16/"): q is read from the query key item-query
read_items16(db, p) ==
  QueryEndpoint(db, "read_items16", p.item_query, FALSE, NoLimit, NoLimit, FALSE)

\* @app.get("/items17/"): q is read from the query key item-query
read_items17(db, p) ==
  QueryEndpoint(db, "read_items17", p.item_query, FALSE, QueryMinLength,
                QueryMaxLength, TRUE)

\* @app.get("/items18/")
read_items18(db, p) ==
  LET hidden_query == StrParam(<<"query", "hidden_query">>, p.hidden_query, FALSE, Null)
  IN Returned(db, "read_items18",
              IF Truthy(hidden_query.val) THEN [hidden_query |-> hidden_query.val]
              ELSE [hidden_query |-> Str("Not found")])

\* results = {"item_id": item_id}; if q: results.update({"q": q})
IdResults(item_id, q) ==
  IF Truthy(q) THEN [item_id |-> item_id, q |-> q] ELSE [item_id |-> item_id]

\* @app.get("/items19/{item_id}"): q is read from the query key item-query
read_items19(db, p) ==
  LET item_id == IntParam(<<"path", "item_id">>, p.item_id, TRUE, Null)
      q == StrParam(<<"query", "item-query">>, p.item_query, FALSE, Null)
  IN IF item_id.errs # {} THEN Rejected(db, item_id.errs)
     ELSE Returned(db, "read_items19", IdResults(item_id.val, q.val))

\* read_items20 with item_id declared ge=0 in place of gt=0
read_items20_ge(db, p) ==
  LET item_id == IntParam(<<"path", "item_id">>, p.item_id, TRUE, Null)
      q == StrParam(<<"query", "q">>, p.q, TRUE, Null)
      errs == item_id.errs
              \cup (IF item_id.errs = {}
                    THEN Check(item_id.val.n >= 0, <<"path", "item_id">>,
                               "greater_than_equal")
                         \cup Check(item_id.val.n <= ItemIdMax, <<"path", "item_id">>,
                                    "less_than_equal")
                    ELSE {})
              \cup q.errs
  IN IF errs # {} THEN Rejected(db, errs)
     ELSE Returned(db, "read_items20", IdResults(item_id.val, q.val))

\* @app.get("/items20/{item_id}")
read_items20(db, p) ==
  LET item_id == IntParam(<<"path", "item_id">>, p.item_id, TRUE, Null)
      q == StrParam(<<"query", "q">>, p.q, TRUE, Null)
      errs == item_id.errs
              \cup (IF item_id.errs = {}
                    THEN Check(item_id.val.n > 0, <<"path", "item_id">>, "greater_than")
                         \cup Check(item_id.val.n <= ItemIdMax, <<"path", "item_id">>,
                                    "less_than_equal")
                    ELSE {})
              \cup q.errs
  IN IF errs # {} THEN Rejected(db, errs)
     ELSE Returned(db, "read_items20", IdResults(item_id.val, q.val))

\* @app.put("/items21/{item_id}")
update_item21(db, p) ==
  LET item_id == IntParam(<<"path", "item_id">>, p.item_id, TRUE, Null)
      q == StrParam(<<"query", "q">>, p.q, FALSE, Null)
      item == IF p.item.t = "absent" THEN Valid(Null) ELSE Item(<<"body">>, p.item)
      errs == item_id.errs
              \cup (IF item_id.errs = {}
                    THEN Check(item_id.val.n >= 0, <<"path", "item_id">>,
                               "greater_than_equal")
                         \cup Check(item_id.val.n <= ItemIdMax, <<"path", "item_id">>,
                                    "less_than_equal")
                    ELSE {})
              \cup item.errs
  IN IF errs # {} THEN Rejected(db, errs)
     ELSE Returned(db, "update_item21",
            CASE Truthy(q.val) /\ p.item.t # "absent" ->
                   [item |-> item.val, item_id |-> item_id.val, q |-> q.val]
              [] Truthy(q.val) /\ p.item.t = "absent" ->
                   [item_id |-> item_id.val, q |-> q.val]
              [] ~Truthy(q.val) /\ p.item.t # "absent" ->
                   [item |-> item.val, item_id |-> item_id.val]
              [] OTHER -> [item_id |-> item_id.val])

\* @app.put("/items22/{item_id}")
update_item22(db, p) ==
  LET item_id == IntParam(<<"path", "item_id">>, p.item_id, TRUE, Null)
      item == Item(<<"body", "item">>, p.item)
      user == User(<<"body", "user">>, p.user)
      errs == item_id.errs \cup item.errs \cup user.errs
  IN IF errs # {} THEN Rejected(db, errs)
     ELSE Returned(db, "update_item22",
                   [item |-> item.val, item_id |-> item_id.val, user |-> user.val])

\* @app.put("/items23/{item_id}")
update_item23(db, p) ==
  LET item_id == IntParam(<<"path", "item_id">>, p.item_id, TRUE, Null)
      item == Item(<<"body", "item">>, p.item)
      user == User(<<"body", "user">>, p.user)
      importance == IntParam(<<"body", "importance">>, p.importance, TRUE, Null)
      errs == item_id.errs \cup item.errs \cup user.errs \cup importance.errs
  IN IF errs # {} THEN Rejected(db, errs)
     ELSE Returned(db, "update_item23",
                   [importance |-> importance.val, item |-> item.val,
                    item_id |-> item_id.val, user |-> user.val])

\* the endpoints /items24/, /items25/ and /items26/: an int path parameter and an
\* Item body, answered by {"item_id": item_id, "item": item}
ItemEndpoint(db, handler, loc, p) ==
  LET item_id == IntParam(<<"path", "item_id">>, p.item_id, TRUE, Null)
      item == Item(loc, p.item)
      errs == item_id.errs \cup item.errs
  IN IF errs # {} THEN Rejected(db, errs)
     ELSE Returned(db, handler, [item |-> item.val, item_id |-> item_id.val])

\* @app.put("/items24/{item_id}"): Body(embed=True)
update_item24(db, p) == ItemEndpoint(db, "update_item24", <<"body", "item">>, p)

\* @app.put("/items25/{item_id}")
update_item25(db, p) == ItemEndpoint(db, "update_item25", <<"body">>, p)

\* @app.post("/offers/")
create_offer(db, p) ==
  LET offer == Offer(<<"body">>, p.offer)
  IN IF offer.errs # {} THEN Rejected(db, offer.errs)
     ELSE Returned(db, "create_offer", offer.val)

\* dict[int, float]: the pairs of a JSON object, keys parsed as int
Weights(loc, raw) ==
  LET errs == UNION {IntParam(loc \o <<kv[1]>>, Str(kv[1]), TRUE, Null).errs
                     \cup FloatParam(loc \o <<kv[1]>>, kv[2], TRUE, Null).errs
                     : kv \in Range(raw.l)}
  IN IF raw.t = "absent" THEN Missing(loc)
     ELSE [errs |-> errs,
           val |-> IF errs # {} THEN {}
                   ELSE {<<IntOf[kv[1]], FloatParam(loc, kv[2], TRUE, Null).val.n>>
                         : kv \in Range(raw.l)}]

\* @app.post("/index-weights/")
create_index_weights(db, p) ==
  LET weights == Weights(<<"body">>, p.weights)
  IN IF weights.errs # {} THEN Rejected(db, weights.errs)
     ELSE Returned(db, "create_index_weights", [pairs |-> weights.val])

\* @app.put("/items26/{item_id}")
update_item26(db, p) == ItemEndpoint(db, "update_item26", <<"body">>, p)

HexDigits ==
  {"0", "1", "2", "3", "4", "5", "6", "7", "8", "9", "a", "b", "c", "d", "e", "f"}

\* UUID: 8-4-4-4-12 hexadecimal digits
UuidParam(loc, raw) ==
  IF /\ raw.t = "str"
     /\ Len(raw.s) = 36
     /\ \A i \in 1..36 :
          IF i \in {9, 14, 19, 24} THEN SubSeq(raw.s, i, i) = "-"
          ELSE SubSeq(raw.s, i, i) \in HexDigits
  THEN Valid(raw)
  ELSE Invalid(loc, "uuid_parsing")

\* datetime, timedelta and time, sent as JSON numbers of seconds
SecondsParam(loc, raw, required) ==
  CASE raw.t = "absent" -> IF required THEN Missing(loc) ELSE Valid(Null)
    [] raw.t = "num" -> Valid(raw)
    [] raw.t = "null" /\ ~required -> Valid(Null)
    [] OTHER -> Invalid(loc, "parsing")

\* @app.put("/items27/{item_id}")
read_items27(db, p) ==
  LET item_id == UuidParam(<<"path", "item_id">>, p.item_id)
      start_datetime == SecondsParam(<<"body", "start_datetime">>, p.start_datetime, TRUE)
      end_datetime == SecondsParam(<<"body", "end_datetime">>, p.end_datetime, TRUE)
      process_after == SecondsParam(<<"body", "process_after">>, p.process_after, TRUE)
      repeat_at == SecondsParam(<<"body", "repeat_at">>, p.repeat_at, FALSE)
      errs == item_id.errs \cup start_datetime.errs \cup end_datetime.errs
              \cup process_after.errs \cup repeat_at.errs
              \cup (IF repeat_at.errs = {} /\ repeat_at.val.t = "num"
                    THEN Check(repeat_at.val.n >= 0, <<"body", "repeat_at">>,
                               "time_parsing")
                    ELSE {})
      start_process == start_datetime.val.n + process_after.val.n
      duration == end_datetime.val.n - start_process
  IN IF errs # {} THEN Rejected(db, errs)
     ELSE Returned(db, "read_items27",
                   [duration |-> Num(duration), end_datetime |-> end_datetime.val,
                    item_id |-> item_id.val, process_after |-> process_after.val,
                    repeat_at |-> repeat_at.val, start_datetime |-> start_datetime.val,
                    start_process |-> Num(start_process)])

\* @app.get("/items28/")
read_items28(db, p) ==
  LET ads_id == StrParam(<<"cookie", "ads_id">>, p.ads_id, FALSE, Null)
  IN Returned(db, "read_items28", [ads_id |-> ads_id.val])

\* @app.get("/items29/"): the response key is "User-Agent"
read_items29(db, p) ==
  LET user_agent == StrParam(<<"header", "user-agent">>, p.user_agent, FALSE, Null)
  IN Returned(db, "read_items29", [user_agent |-> user_agent.val])

\* @app.get("/items30/")
read_items30(db, p) ==
  LET strange_header ==
        StrParam(<<"header", "strange_header">>, p.strange_header, FALSE, Null)
  IN Returned(db, "read_items30", [strange_header |-> strange_header.val])

\* @app.get("/items31/"): the response key is "X-Token values"
read_items31(db, p) ==
  LET x_token == ListParam(<<"header", "x-token">>, p.x_token, Null)
  IN Returned(db, "read_items31", [x_token |-> x_token.val])

\* @app.post("/items32/")
create_item32(db, p) ==
  LET item == Item(<<"body">>, p.item)
  IN IF item.errs # {} THEN Rejected(db, item.errs)
     ELSE Returned(db, "create_item32", dict(item.val))

\* a float that is no integer, kept as its literal
Decimal(x) == [n |-> 0, s |-> x, t |-> "float"]

\* Item(name="Foo", price=35.4), Item(name="Bar", price=62)
TwoItems ==
  <<[description |-> Null, image |-> NoImage, name |-> Str("Foo"),
     price |-> Decimal("35.4"), set_tags |-> {}, tags |-> <<>>, tax |-> Null],
    [description |-> Null, image |-> NoImage, name |-> Str("Bar"), price |-> Num(62),
     set_tags |-> {}, tags |-> <<>>, tax |-> Null]>>

\* @app.get("/items33/")
read_items33(db, p) == Returned(db, "read_items33", [array |-> TwoItems])

\* @app.post("/items34/", response_model=Item)
create_item34(db, p) ==
  LET item == Item(<<"body">>, p.item)
  IN IF item.errs # {} THEN Rejected(db, item.errs)
     ELSE Returned(db, "create_item34", dict(item.val))

\* @app.get("/items35/", response_model=list[Item])
read_items35(db, p) == Returned(db, "read_items35", [array |-> TwoItems])

\* @app.get("/portal")
get_portal(db, p) ==
  LET teleport == BoolParam(<<"query", "teleport">>, p.teleport, Bool(FALSE))
  IN IF teleport.errs # {} THEN Rejected(db, teleport.errs)
     ELSE IF Truthy(teleport.val)
          THEN [body |-> [url |-> "https://www.youtube.com/watch?v=dQw4w9WgXcQ"],
                db |-> db, handler |-> "get_portal", status |-> 307]
          ELSE Returned(db, "get_portal",
                        [message |-> "Here's your interdimensional portal."])

\* app: the route of a request decides the endpoint that answers it; the
\* answer of the application in the state db to the request req
Respond(db, req) ==
  CASE req.route = "GET /" -> root(db, req.p)
    [] req.route = "GET /items/{item_id}" -> read_item(db, req.p)
    [] req.route = "GET /models/{model_name}" -> get_model(db, req.p)
    [] req.route = "GET /items/" -> read_item2(db, req.p)
    [] req.route = "GET /items2/{item_id}" -> read_item3(db, req.p)
    [] req.route = "GET /items3/{item_id}" -> read_item4(db, req.p)
    [] req.route = "GET /items4/{item_id}" -> read_user_item(db, req.p)
    [] req.route = "POST /items5/" -> create_item(db, req.p)
    [] req.route = "PUT /items6/{item_id}" -> update_item(db, req.p)
    [] req.route = "PUT /items7/{item_id}" -> update_item7(db, req.p)
    [] req.route = "GET /items8/" -> read_items8(db, req.p)
    [] req.route = "GET /items9/" -> read_items9(db, req.p)
    [] req.route = "GET /items10/" -> read_items10(db, req.p)
    [] req.route = "GET /items11/" -> read_items11(db, req.p)
    [] req.route = "GET /items12/" -> read_items12(db, req.p)
    [] req.route = "GET /items13/" -> read_items13(db, req.p)
    [] req.route = "GET /items14/" -> read_items14(db, req.p)
    [] req.route = "GET /items15/" -> read_items15(db, req.p)
    [] req.route = "GET /items16/" -> read_items16(db, req.p)
    [] req.route = "GET /items17/" -> read_items17(db, req.p)
    [] req.route = "GET /items18/" -> read_items18(db, req.p)
    [] req.route = "GET /items19/{item_id}" -> read_items19(db, req.p)
    [] req.route = "GET /items20/{item_id}" -> read_items20(db, req.p)
    [] req.route = "PUT /items21/{item_id}" -> update_item21(db, req.p)
    [] req.route = "PUT /items22/{item_id}" -> update_item22(db, req.p)
    [] req.route = "PUT /items23/{item_id}" -> update_item23(db, req.p)
    [] req.route = "PUT /items24/{item_id}" -> update_item24(db, req.p)
    [] req.route = "PUT /items25/{item_id}" -> update_item25(db, req.p)
    [] req.route = "POST /offers/" -> create_offer(db, req.p)
    [] req.route = "POST /index-weights/" -> create_index_weights(db, req.p)
    [] req.route = "PUT /items26/{item_id}" -> update_item26(db, req.p)
    [] req.route = "PUT /items27/{item_id}" -> read_items27(db, req.p)
    [] req.route = "GET /items28/" -> read_items28(db, req.p)
    [] req.route = "GET /items29/" -> read_items29(db, req.p)
    [] req.route = "GET /items30/" -> read_items30(db, req.p)
    [] req.route = "GET /items31/" -> read_items31(db, req.p)
    [] req.route = "POST /items32/" -> create_item32(db, req.p)
    [] req.route = "GET /items33/" -> read_items33(db, req.p)
    [] req.route = "POST /items34/" -> create_item34(db, req.p)
    [] req.route = "GET /items35/" -> read_items35(db, req.p)
    [] req.route = "GET /portal" -> get_portal(db, req.p)

(***************************************************************************)
(* The requests sent                                                       *)
(***************************************************************************)
NoParams == [none |-> Absent]
NoRequest == [p |-> NoParams, route |-> "none"]
NoResponse == [body |-> NoParams, status |-> 0]

\* raw text of path, query, header and cookie parameters
IntTexts == {Str(ToString(i)) : i \in SmallInts} \cup {Str("foo")}
IdTexts ==
  IntTexts \cup {Str(ToString(i)) : i \in (ItemIdMax - Near)..(ItemIdMax + Near)}
SkipTexts == {Str(ToString(i)) : i \in (0 - MaxSkip)..MaxSkip} \cup {Absent, Str("foo")}
PathTexts == {Str("1"), Str("foo")}
Texts == {Str(""), Str("ab"), Str("fixedquery"), Str(Rep("x", QueryMaxLength + 1))}
OptTexts == Texts \cup {Absent}
FewTexts == {Absent, Str("ab")}
BoolTexts == {Absent, Str("true"), Str("0"), Str("maybe")}
Lists == {AbsentList, List(<<"a">>), List(<<"a", "b">>)}
ModelNames ==
  {Str("telecentro"), Str("movistar"), Str("claro"), Str("fibertel"),
   Str("personal"), Str("Claro"), Str("1")}
UuidTexts == {Str("123e4567-e89b-12d3-a456-426614174000"), Str("123e4567")}

\* JSON bodies
JsonNumbers == {Num(i) : i \in SmallInts}
PlainItem ==
  [description |-> Absent, image |-> AbsentImage, name |-> Str("Foo"),
   price |-> Num(1), set_tags |-> AbsentList, t |-> "obj", tags |-> AbsentList,
   tax |-> Absent]
ItemCore ==
  {[PlainItem EXCEPT !.name = name, !.price = price, !.tax = tax] :
     name \in {Absent, Str("Foo")}, price \in JsonNumbers,
     tax \in JsonNumbers \cup {Absent, Null}}
ItemSpecial ==
  {[PlainItem EXCEPT !.price = Absent],
   [PlainItem EXCEPT !.price = Str("1")],
   [PlainItem EXCEPT !.price = Str("thirty five point four")],
   [PlainItem EXCEPT !.description = Str(Rep("d", DescriptionMaxLength))],
   [PlainItem EXCEPT !.description = Str(Rep("d", DescriptionMaxLength + 1))],
   [PlainItem EXCEPT !.price = Num(0),
                     !.description = Str(Rep("d", DescriptionMaxLength + 1))],
   [PlainItem EXCEPT !.tags = List(<<"tag1", "tag2", "tag1">>),
                     !.set_tags = List(<<"tag1", "tag2", "tag1">>),
                     !.image = ImageJson("https://example.com/image.jpg",
                                         Str("image.jpg"))],
   [PlainItem EXCEPT !.image = ImageJson("ftp-example", Str("image.jpg"))]}
ItemBodies == ItemCore \cup ItemSpecial
FewItems == {[PlainItem EXCEPT !.price = price] : price \in JsonNumbers}
SomeItems == FewItems \cup ItemSpecial
Users ==
  {AbsentUser,
   [full_name |-> Absent, t |-> "obj", username |-> Str("mariano")],
   [full_name |-> Str("Mariano"), t |-> "obj", username |-> Absent]}
Offers ==
  {[description |-> Absent, items |-> items, name |-> Str("Sale"), price |-> price,
    t |-> "obj"] :
     items \in {AbsentList, List(<<>>), List(<<PlainItem>>),
                List(<<PlainItem, [PlainItem EXCEPT !.price = Num(0)]>>)},
     price \in JsonNumbers \cup {Absent}}
WeightBodies ==
  {AbsentList, List(<<>>), List(<<<<"1", Num(2)>>, <<"2", Num(1)>>>>),
   List(<<<<"foo", Num(1)>>>>), List(<<<<"1", Str("foo")>>>>)}
Seconds == {Num(0), Num(MaxSmall)}

(***************************************************************************)
(* The state machine                                                       *)
(***************************************************************************)
Init ==
  /\ fake_items_db = InitialItems
  /\ request = NoRequest
  /\ response = NoResponse
  /\ executed = "none"

\* the outcome of an endpoint: the response sent, the endpoint function that ran
\* and what it left in fake_items_db
Serve(out) ==
  /\ response' = [body |-> out.body, status |-> out.status]
  /\ executed' = out.handler
  /\ fake_items_db' = out.db

Req_root ==
  /\ request' = [p |-> NoParams, route |-> "GET /"]
  /\ Serve(root(fake_items_db, request'.p))

Req_read_item ==
  \E item_id \in IdTexts :
    /\ request' = [p |-> [item_id |-> item_id],
                   route |-> "GET /items/{item_id}"]
    /\ Serve(read_item(fake_items_db, request'.p))

Req_get_model ==
  \E model_name \in ModelNames :
    /\ request' = [p |-> [model_name |-> model_name],
                   route |-> "GET /models/{model_name}"]
    /\ Serve(get_model(fake_items_db, request'.p))

Req_read_item2 ==
  \E limit \in SkipTexts, skip \in SkipTexts :
    /\ request' = [p |-> [limit |-> limit, skip |-> skip],
                   route |-> "GET /items/"]
    /\ Serve(read_item2(fake_items_db, request'.p))

Req_read_item3 ==
  \E item_id \in PathTexts, q \in OptTexts :
    /\ request' = [p |-> [item_id |-> item_id, q |-> q],
                   route |-> "GET /items2/{item_id}"]
    /\ Serve(read_item3(fake_items_db, request'.p))

Req_read_item4 ==
  \E item_id \in PathTexts, q \in FewTexts, short \in BoolTexts :
    /\ request' = [p |-> [item_id |-> item_id, q |-> q, short |-> short],
                   route |-> "GET /items3/{item_id}"]
    /\ Serve(read_item4(fake_items_db, request'.p))

Req_read_user_item ==
  \E item_id \in PathTexts, needy \in OptTexts :
    /\ request' = [p |-> [item_id |-> item_id, needy |-> needy],
                   route |-> "GET /items4/{item_id}"]
    /\ Serve(read_user_item(fake_items_db, request'.p))

Req_create_item ==
  \E item \in ItemBodies \cup {AbsentItem} :
    /\ request' = [p |-> [item |-> item],
                   route |-> "POST /items5/"]
    /\ Serve(create_item(fake_items_db, request'.p))

Req_update_item ==
  \E item \in ItemBodies, item_id \in PathTexts :
    /\ request' = [p |-> [item |-> item, item_id |-> item_id],
                   route |-> "PUT /items6/{item_id}"]
    /\ Serve(update_item(fake_items_db, request'.p))

Req_update_item7 ==
  \E item \in SomeItems, item_id \in PathTexts, q \in FewTexts :
    /\ request' = [p |-> [item |-> item, item_id |-> item_id, q |-> q],
                   route |-> "PUT /items7/{item_id}"]
    /\ Serve(update_item7(fake_items_db, request'.p))

Req_read_items8 ==
  \E q \in OptTexts :
    /\ request' = [p |-> [q |-> q],
                   route |-> "GET /items8/"]
    /\ Serve(read_items8(fake_items_db, request'.p))

Req_read_items9 ==
  \E q \in OptTexts :
    /\ request' = [p |-> [q |-> q],
                   route |-> "GET /items9/"]
    /\ Serve(read_items9(fake_items_db, request'.p))

Req_read_items10 ==
  \E q \in OptTexts :
    /\ request' = [p |-> [q |-> q],
                   route |-> "GET /items10/"]
    /\ Serve(read_items10(fake_items_db, request'.p))

Req_read_items11 ==
  \E q \in OptTexts :
    /\ request' = [p |-> [q |-> q],
                   route |-> "GET /items11/"]
    /\ Serve(read_items11(fake_items_db, request'.p))

Req_read_items12 ==
  \E q \in OptTexts :
    /\ request' = [p |-> [q |-> q],
                   route |-> "GET /items12/"]
    /\ Serve(read_items12(fake_items_db, request'.p))

Req_read_items13 ==
  \E q \in Lists :
    /\ request' = [p |-> [q |-> q],
                   route |-> "GET /items13/"]
    /\ Serve(read_items13(fake_items_db, request'.p))

Req_read_items14 ==
  \E q \in Lists :
    /\ request' = [p |-> [q |-> q],
                   route |-> "GET /items14/"]
    /\ Serve(read_items14(fake_items_db, request'.p))

Req_read_items15 ==
  \E q \in OptTexts :
    /\ request' = [p |-> [q |-> q],
                   route |-> "GET /items15/"]
    /\ Serve(read_items15(fake_items_db, request'.p))

Req_read_items16 ==
  \E item_query \in OptTexts :
    /\ request' = [p |-> [item_query |-> item_query],
                   route |-> "GET /items16/"]
    /\ Serve(read_items16(fake_items_db, request'.p))

Req_read_items17 ==
  \E item_query \in OptTexts :
    /\ request' = [p |-> [item_query |-> item_query],
                   route |-> "GET /items17/"]
    /\ Serve(read_items17(fake_items_db, request'.p))

Req_read_items18 ==
  \E hidden_query \in OptTexts :
    /\ request' = [p |-> [hidden_query |-> hidden_query],
                   route |-> "GET /items18/"]
    /\ Serve(read_items18(fake_items_db, request'.p))

Req_read_items19 ==
  \E item_id \in IdTexts, item_query \in FewTexts :
    /\ request' = [p |-> [item_id |-> item_id, item_query |-> item_query],
                   route |-> "GET /items19/{item_id}"]
    /\ Serve(read_items19(fake_items_db, request'.p))

Req_read_items20 ==
  \E item_id \in IdTexts, q \in OptTexts :
    /\ request' = [p |-> [item_id |-> item_id, q |-> q],
                   route |-> "GET /items20/{item_id}"]
    /\ Serve(read_items20(fake_items_db, request'.p))

Req_update_item21 ==
  \E item \in FewItems \cup {AbsentItem}, item_id \in IdTexts, q \in FewTexts :
    /\ request' = [p |-> [item |-> item, item_id |-> item_id, q |-> q],
                   route |-> "PUT /items21/{item_id}"]
    /\ Serve(update_item21(fake_items_db, request'.p))

Req_update_item22 ==
  \E item \in FewItems \cup {AbsentItem}, item_id \in PathTexts, user \in Users :
    /\ request' = [p |-> [item |-> item, item_id |-> item_id, user |-> user],
                   route |-> "PUT /items22/{item_id}"]
    /\ Serve(update_item22(fake_items_db, request'.p))

Req_update_item23 ==
  \E importance \in {Absent, Num(MaxSmall), Str("foo")}, item \in FewItems,
     item_id \in PathTexts, user \in Users :
    /\ request' = [p |-> [importance |-> importance, item |-> item,
                          item_id |-> item_id, user |-> user],
                   route |-> "PUT /items23/{item_id}"]
    /\ Serve(update_item23(fake_items_db, request'.p))

Req_update_item24 ==
  \E item \in SomeItems \cup {AbsentItem}, item_id \in PathTexts :
    /\ request' = [p |-> [item |-> item, item_id |-> item_id],
                   route |-> "PUT /items24/{item_id}"]
    /\ Serve(update_item24(fake_items_db, request'.p))

Req_update_item25 ==
  \E item \in SomeItems \cup {AbsentItem}, item_id \in PathTexts :
    /\ request' = [p |-> [item |-> item, item_id |-> item_id],
                   route |-> "PUT /items25/{item_id}"]
    /\ Serve(update_item25(fake_items_db, request'.p))

Req_create_offer ==
  \E offer \in Offers \cup {AbsentOffer} :
    /\ request' = [p |-> [offer |-> offer],
                   route |-> "POST /offers/"]
    /\ Serve(create_offer(fake_items_db, request'.p))

Req_create_index_weights ==
  \E weights \in WeightBodies :
    /\ request' = [p |-> [weights |-> weights],
                   route |-> "POST /index-weights/"]
    /\ Serve(create_index_weights(fake_items_db, request'.p))

Req_update_item26 ==
  \E item \in SomeItems \cup {AbsentItem}, item_id \in PathTexts :
    /\ request' = [p |-> [item |-> item, item_id |-> item_id],
                   route |-> "PUT /items26/{item_id}"]
    /\ Serve(update_item26(fake_items_db, request'.p))

Req_read_items27 ==
  \E end_datetime \in Seconds \cup {Absent}, item_id \in UuidTexts,
     process_after \in Seconds \cup {Str("foo")},
     repeat_at \in {Absent, Null, Num(0 - 1), Num(MaxSmall)},
     start_datetime \in Seconds :
    /\ request' = [p |-> [end_datetime |-> end_datetime, item_id |-> item_id,
                          process_after |-> process_after, repeat_at |-> repeat_at,
                          start_datetime |-> start_datetime],
                   route |-> "PUT /items27/{item_id}"]
    /\ Serve(read_items27(fake_items_db, request'.p))

Req_read_items28 ==
  \E ads_id \in FewTexts :
    /\ request' = [p |-> [ads_id |-> ads_id],
                   route |-> "GET /items28/"]
    /\ Serve(read_items28(fake_items_db, request'.p))

Req_read_items29 ==
  \E user_agent \in FewTexts :
    /\ request' = [p |-> [user_agent |-> user_agent],
                   route |-> "GET /items29/"]
    /\ Serve(read_items29(fake_items_db, request'.p))

Req_read_items30 ==
  \E strange_header \in FewTexts :
    /\ request' = [p |-> [strange_header |-> strange_header],
                   route |-> "GET /items30/"]
    /\ Serve(read_items30(fake_items_db, request'.p))

Req_read_items31 ==
  \E x_token \in Lists :
    /\ request' = [p |-> [x_token |-> x_token],
                   route |-> "GET /items31/"]
    /\ Serve(read_items31(fake_items_db, request'.p))

Req_create_item32 ==
  \E item \in ItemBodies \cup {AbsentItem} :
    /\ request' = [p |-> [item |-> item],
                   route |-> "POST /items32/"]
    /\ Serve(create_item32(fake_items_db, request'.p))

Req_read_items33 ==
  /\ request' = [p |-> NoParams, route |-> "GET /items33/"]
  /\ Serve(read_items33(fake_items_db, request'.p))

Req_create_item34 ==
  \E item \in SomeItems \cup {AbsentItem} :
    /\ request' = [p |-> [item |-> item],
                   route |-> "POST /items34/"]
    /\ Serve(create_item34(fake_items_db, request'.p))

Req_read_items35 ==
  /\ request' = [p |-> NoParams, route |-> "GET /items35/"]
  /\ Serve(read_items35(fake_items_db, request'.p))

Req_get_portal ==
  \E teleport \in BoolTexts :
    /\ request' = [p |-> [teleport |-> teleport],
                   route |-> "GET /portal"]
    /\ Serve(get_portal(fake_items_db, request'.p))

Next ==
  \/ Req_root
  \/ Req_read_item
  \/ Req_get_model
  \/ Req_read_item2
  \/ Req_read_item3
  \/ Req_read_item4
  \/ Req_read_user_item
  \/ Req_create_item
  \/ Req_update_item
  \/ Req_update_item7
  \/ Req_read_items8
  \/ Req_read_items9
  \/ Req_read_items10
  \/ Req_read_items11
  \/ Req_read_items12
  \/ Req_read_items13
  \/ Req_read_items14
  \/ Req_read_items15
  \/ Req_read_items16
  \/ Req_read_items17
  \/ Req_read_items18
  \/ Req_read_items19
  \/ Req_read_items20
  \/ Req_update_item21
  \/ Req_update_item22
  \/ Req_update_item23
  \/ Req_update_item24
  \/ Req_update_item25
  \/ Req_create_offer
  \/ Req_create_index_weights
  \/ Req_update_item26
  \/ Req_read_items27
  \/ Req_read_items28
  \/ Req_read_items29
  \/ Req_read_items30
  \/ Req_read_items31
  \/ Req_create_item32
  \/ Req_read_items33
  \/ Req_create_item34
  \/ Req_read_items35
  \/ Req_get_portal

Spec == Init /\ [][Next]_vars

(***************************************************************************)
(* Properties                                                              *)
(***************************************************************************)
\* the routes whose body is (or holds, under the key item) one Item
ItemRoutes ==
  {"POST /items5/", "PUT /items6/{item_id}", "PUT /items7/{item_id}",
   "PUT /items21/{item_id}", "PUT /items22/{item_id}", "PUT /items23/{item_id}",
   "PUT /items24/{item_id}", "PUT /items25/{item_id}", "PUT /items26/{item_id}",
   "POST /items32/", "POST /items34/"}

Rejects == response.status = 422 /\ executed = "none"

\* the errors of a 422 response that are about the field price
PriceErrors == {e \in response.body.detail : e[1][Len(e[1])] = "price"}

\* the request sends an Item whose price is the JSON number n
SendsPrice == request.route \in ItemRoutes /\ request.p.item.t = "obj"
                /\ request.p.item.price.t = "num"

\* C1: on every route that takes an Item body, a price <= 0 is answered 422 and
\* the handler does not run; a price > 0 is never what a request is rejected for
C1_PriceMustBePositive ==
  SendsPrice =>
    /\ request.p.item.price.n <= 0 => Rejects
    /\ request.p.item.price.n > 0 /\ response.status = 422 => PriceErrors = {}

C1_Witness ==
  /\ request.route = "POST /items32/"
  /\ request.p.item = [PlainItem EXCEPT !.price = Num(0)]
  /\ response.status = 422
  /\ PriceErrors # {}

\* C2: GET /models/{model_name} answers {"model_name": model_name} exactly for the
\* four names telecentro, movistar, claro, fibertel; any other name is answered
\* 422 and get_model does not run
C2_ModelNameEnumerated ==
  request.route = "GET /models/{model_name}" =>
    IF request.p.model_name.s \in {"telecentro", "movistar", "claro", "fibertel"}
    THEN /\ response = [body |-> [model_name |-> request.p.model_name], status |-> 200]
         /\ executed = "get_model"
    ELSE Rejects

C2_Witness ==
  /\ request.route = "GET /models/{model_name}"
  /\ request.p.model_name = Str("Claro")
  /\ response.status = 422

\* C3: GET /items4/{item_id} without needy is answered 422 and read_user_item does
\* not run; with needy the answer is exactly {"item_id": item_id, "needy": needy}
C3_NeedyRequired ==
  request.route = "GET /items4/{item_id}" =>
    IF request.p.needy.t = "absent"
    THEN Rejects
    ELSE /\ response = [body |-> [item_id |-> request.p.item_id,
                                  needy |-> request.p.needy],
                        status |-> 200]
         /\ executed = "read_user_item"

C3_Witness ==
  /\ request.route = "GET /items4/{item_id}"
  /\ request.p.needy.t = "absent"
  /\ response.status = 422

\* C4: after any sequence of requests, rejected ones included, fake_items_db is
\* the list Foo, Bar, Baz it started as
C4_FakeItemsDbReadOnly ==
  fake_items_db = <<[item_name |-> "Foo"], [item_name |-> "Bar"], [item_name |-> "Baz"]>>

C4_Witness ==
  /\ request.route = "GET /items/"
  /\ request.p.skip = Str("1")
  /\ response.status = 200
  /\ Len(response.body.array) = 2
  /\ fake_items_db = InitialItems

\* C5: the response to a request is the response the application gives to that
\* request when it is the first one it receives, whatever requests came before
C5_ResponseDependsOnRequestOnly ==
  request # NoRequest =>
    LET first == Respond(InitialItems, request)
    IN response = [body |-> first.body, status |-> first.status]

C5_Witness ==
  /\ request.route = "GET /items/"
  /\ request.p = [limit |-> Str("1"), skip |-> Str("2")]
  /\ response = [body |-> [array |-> <<[item_name |-> "Baz"]>>], status |-> 200]

\* the item ids that are zero or negative, as sent in the path
NonPositiveIds == {Str(ToString(i)) : i \in (0 - MaxSmall)..0}

\* C6: GET /items19/{item_id} with an item_id that is zero or negative is answered
\* 422 and read_items19 does not run
C6_Items19IdPositive ==
  request.route = "GET /items19/{item_id}" /\ request.p.item_id \in NonPositiveIds
    => Rejects

\* C7: GET /items20/{item_id} runs read_items20 exactly when 0 < item_id <= 1000
\* and q is supplied, and then answers {"item_id": item_id}, plus q when q is not
\* empty; every other request is answered 422
C7_Items20Range ==
  request.route = "GET /items20/{item_id}" =>
    IF /\ \E i \in 1..1000 : request.p.item_id.s = ToString(i)
       /\ request.p.q.t # "absent"
    THEN LET i == CHOOSE i \in 1..1000 : request.p.item_id.s = ToString(i)
         IN /\ executed = "read_items20"
            /\ response.status = 200
            /\ response.body = IF request.p.q.s # ""
                               THEN [item_id |-> Num(i), q |-> request.p.q]
                               ELSE [item_id |-> Num(i)]
    ELSE Rejects

C7_Witness ==
  /\ request.route = "GET /items20/{item_id}"
  /\ request.p.item_id = Str("1000")
  /\ request.p.q = Str("ab")
  /\ response.status = 200

\* the integer a skip or limit text stands for, the default when absent
Sent(raw, default) ==
  IF raw.t = "absent" THEN default
  ELSE CHOOSE i \in (0 - MaxSkip)..MaxSkip : raw.s = ToString(i)

\* C8: GET /items/ with integer skip and limit is answered 200 with a contiguous
\* part of fake_items_db in its order; for skip >= 0 and limit >= 0 that part is
\* the items at the indices skip .. min(skip + limit, 3) - 1, at most limit items
C8_ItemsPage ==
  request.route = "GET /items/" /\ request.p.skip # Str("foo")
    /\ request.p.limit # Str("foo") =>
    LET skip == Sent(request.p.skip, 0)
        limit == Sent(request.p.limit, 10)
        last == (IF skip + limit < 3 THEN skip + limit ELSE 3) - 1
        page == response.body.array
    IN /\ response.status = 200
       /\ \E i \in 1..4, j \in 0..3 : page = SubSeq(fake_items_db, i, j)
       /\ skip >= 0 /\ limit >= 0 =>
            /\ Len(page) = (IF last >= skip THEN last - skip + 1 ELSE 0)
            /\ \A k \in 1..Len(page) : page[k] = fake_items_db[skip + k]
            /\ Len(page) <= limit
            /\ skip >= 3 \/ limit = 0 => page = <<>>

C8_Witness ==
  /\ request.route = "GET /items/"
  /\ request.p = [limit |-> Str("3"), skip |-> Str("1")]
  /\ response.body.array = <<[item_name |-> "Bar"], [item_name |-> "Baz"]>>

\* C9: POST /items5/ with a valid Item answers with price_with_tax exactly when
\* the body gives a tax, and price_with_tax is then price + tax
C9_PriceWithTaxIffTax ==
  request.route = "POST /items5/" /\ response.status = 200 =>
    /\ "price_with_tax" \in DOMAIN response.body <=> request.p.item.tax.t = "num"
    /\ "price_with_tax" \in DOMAIN response.body =>
         response.body.price_with_tax.n
           = response.body.price.n + response.body.tax.n

====
